---- MODULE Spec2Model ----
(***************************************************************************)
(* Cloak (interstellar/spacesuit): the constraint-system construction of   *)
(* cloak and padded-shuffle, the two-shuffle gadget with its deferred      *)
(* randomized phase, and the SignedInteger arithmetic of value.rs.         *)
(*                                                                         *)
(* Scalars of the cloak and padded-shuffle machines are written as the     *)
(* integers they encode: quantities lie in (-2^64, 2^64) and the scalar    *)
(* field has order about 2^252, so sums of a few quantities never wrap.    *)
(* The two-shuffle machine, whose claims are about the challenge, works in *)
(* a prime field of small order.                                           *)
(***************************************************************************)
EXTENDS Integers, Sequences, FiniteSets, Bags, TLC

(***************************************************************************)
(* Bounds of the model and constants of the program.                       *)
(***************************************************************************)
MaxLen == 2

StackLimit == 6

WordBits == 9

FieldIdx == 1

Peso == 666

Yuan == 888

RangeBits == 64

ByteBits == 8

FieldPrimes == <<5, 7, 11, 13>>

FieldOrder == FieldPrimes[FieldIdx]

Field == 0..(FieldOrder - 1)

SeqsUpTo(S, n) == UNION {[1..k -> S] : k \in 0..n}

Max(a, b) == IF a >= b THEN a ELSE b

Min(a, b) == IF a <= b THEN a ELSE b

Reverse(s) == [i \in 1..Len(s) |-> s[Len(s) + 1 - i]]

RECURSIVE BagOfSeq(_)
BagOfSeq(s) == IF s = <<>> THEN EmptyBag ELSE SetToBag({Head(s)}) (+) BagOfSeq(Tail(s))

(***************************************************************************)
(* value.rs: SignedInteger, Value, AllocatedValue.                         *)
(***************************************************************************)
Positive(u) == [sign |-> "Positive", mag |-> u]

Negative(u) == [sign |-> "Negative", mag |-> u]

Zero == [sign |-> "Zero", mag |-> 0]

SignedInteger_zero == Zero

to_i128(s) ==
  CASE s.sign = "Positive" -> s.mag
    [] s.sign = "Negative" -> 0 - s.mag
    [] s.sign = "Zero" -> 0

\* impl Into<Scalar> for SignedInteger
into_Scalar(s) ==
  CASE s.sign = "Positive" -> s.mag
    [] s.sign = "Negative" -> 0 - s.mag
    [] s.sign = "Zero" -> 0

Value_zero == [q |-> SignedInteger_zero, f |-> 0]

None == <<>>

Some(v) == <<v>>

Ok == "Ok"

Errors == {"AllocationFailure", "GadgetError"}

Results == {Ok} \cup Errors

Roles == {"prover", "verifier"}

peso(q) == [q |-> Positive(q), f |-> Peso]

yuan(q) == [q |-> Positive(q), f |-> Yuan]

TestValues == {Value_zero, peso(1), peso(2), yuan(1)}

VARIABLES
  role,        \* which implementation of the constraint system is driven
  entry,       \* the gadget the driver calls: "cloak" or "padded_shuffle"
  inVals,      \* plaintext values behind the input commitments
  outVals,     \* plaintext values behind the output commitments
  pc,          \* position of the driver / cloak / padded-shuffle
  inputs,      \* Vec<AllocatedValue>
  outputs,     \* Vec<AllocatedValue>
  merge_in, merge_out, split_in, split_out,
  x, y,        \* padded-shuffle's two sides
  pad_values,  \* padded-shuffle's pad_values
  committed,   \* scalar bound by each Committed variable
  mults,       \* per multiplier of cs.allocate: the prover's (l, r, o) or None
  calls,       \* gadget calls made so far, in order
  ri,          \* number of outputs already range-proved
  result,      \* "none" while running, then Ok or the error returned
  fault,       \* None, or the error a callee returned and the number of calls made by then
  ts,          \* two-shuffle machine
  sg           \* SignedInteger machine

cloakVars == <<role, entry, inVals, outVals, pc, inputs, outputs, merge_in, merge_out,
               split_in, split_out, x, y, pad_values, committed, mults, calls, ri, result, fault>>

vars == <<role, entry, inVals, outVals, pc, inputs, outputs, merge_in, merge_out,
          split_in, split_out, x, y, pad_values, committed, mults, calls, ri, result, fault, ts, sg>>

(***************************************************************************)
(* Allocation of values in the constraint system (value.rs).               *)
(***************************************************************************)
\* The witness closure of Value::allocate: (q, f, q * f).
AllocGate(v) == <<into_Scalar(v.q), v.f, into_Scalar(v.q) * v.f>>

\* Value::allocate that allocates a multiplier only where a witness is at
\* hand: the verifier's constraint system gets none.
Value_allocate_witness_only(v, ms) ==
  [av |-> [q |-> <<"MultiplierLeft", Len(ms)>>,
           f |-> <<"MultiplierRight", Len(ms)>>,
           assignment |-> Some(v)],
   mults |-> IF role = "prover" THEN Append(ms, Some(AllocGate(v))) ELSE ms]

\* Value::allocate: one multiplier; the closure is evaluated by the prover
\* only; the AllocatedValue carries Some(*self) whoever the caller is.
Value_allocate(v, ms) ==
  [av |-> [q |-> <<"MultiplierLeft", Len(ms)>>,
           f |-> <<"MultiplierRight", Len(ms)>>,
           assignment |-> Some(v)],
   mults |-> Append(ms, IF role = "prover" THEN Some(AllocGate(v)) ELSE None)]

\* Value::allocate_unassigned
Value_allocate_unassigned(ms) ==
  [av |-> [q |-> <<"MultiplierLeft", Len(ms)>>,
           f |-> <<"MultiplierRight", Len(ms)>>,
           assignment |-> None],
   mults |-> Append(ms, None)]

\* AllocatedValue::reallocate
reallocate(av, ms) ==
  IF av.assignment # None
    THEN Value_allocate(av.assignment[1], ms)
    ELSE Value_allocate_unassigned(ms)

\* AllocatedValue::quantity
quantity(av) ==
  [variable |-> av.q,
   assignment |-> IF av.assignment = None THEN None ELSE Some(av.assignment[1].q)]

\* ProverCommittable / VerifierCommittable for one value: two commitments,
\* the k-th value of a vector committed after `base` earlier commitments.
Value_commit(v, base) ==
  [q |-> <<"Committed", base>>,
   f |-> <<"Committed", base + 1>>,
   assignment |-> IF role = "prover" THEN Some(v) ELSE None]

\* ProverCommittable / VerifierCommittable for Vec
Vec_commit(vals, base) ==
  [i \in 1..Len(vals) |-> Value_commit(vals[i], base + 2 * (i - 1))]

RECURSIVE CommittedScalars(_)
CommittedScalars(vals) ==
  IF vals = <<>> THEN <<>>
  ELSE <<into_Scalar(Head(vals).q), Head(vals).f>> \o CommittedScalars(Tail(vals))

(***************************************************************************)
(* merge and split (k-mix), as the specification describes them.           *)
(***************************************************************************)
ExactSum(a, b) ==
  LET n == to_i128(a) + to_i128(b)
  IN  IF n > 0 THEN Positive(n) ELSE IF n < 0 THEN Negative(0 - n) ELSE Zero

RECURSIVE InsertByFlavor(_, _)
InsertByFlavor(v, s) ==
  IF s = <<>> THEN <<v>>
  ELSE IF v.f <= Head(s).f THEN <<v>> \o s
  ELSE <<Head(s)>> \o InsertByFlavor(v, Tail(s))

RECURSIVE GroupByFlavor(_)
GroupByFlavor(s) ==
  IF s = <<>> THEN <<>> ELSE InsertByFlavor(Head(s), GroupByFlavor(Tail(s)))

\* k-mix on flavor-grouped values: (0,0) everywhere but at the end of a run.
RECURSIVE KMixFrom(_, _)
KMixFrom(acc, rest) ==
  IF rest = <<>> THEN <<acc>>
  ELSE IF acc.f = Head(rest).f
    THEN <<Value_zero>> \o KMixFrom([q |-> ExactSum(acc.q, Head(rest).q), f |-> acc.f], Tail(rest))
    ELSE <<acc>> \o KMixFrom(Head(rest), Tail(rest))

KMix(s) == IF s = <<>> THEN <<>> ELSE KMixFrom(Head(s), Tail(s))

\* The assignments an allocation of `vals` carries on this side.
Assignments(vals) ==
  [i \in 1..Len(vals) |-> IF role = "prover" THEN Some(vals[i]) ELSE None]

RECURSIVE AllocateAll(_, _)
AllocateAll(avs, ms) ==
  IF avs = <<>> THEN [avs |-> <<>>, mults |-> ms]
  ELSE LET one == reallocate(Head(avs), ms)
           more == AllocateAll(Tail(avs), one.mults)
       IN  [avs |-> <<one.av>> \o more.avs, mults |-> more.mults]

\* merge::fill_cs on values whose plaintexts are `vals`
merge_fill_cs(vals, ms) ==
  LET grouped == GroupByFlavor(vals)
      blank(s) == [i \in 1..Len(s) |-> [q |-> None, f |-> None, assignment |-> Assignments(s)[i]]]
      a == AllocateAll(blank(grouped), ms)
      b == AllocateAll(blank(KMix(grouped)), a.mults)
  IN  [merge_in |-> a.avs, merge_out |-> b.avs, mults |-> b.mults]

\* split::fill_cs: merge on the reversed sequence, reversed again
split_fill_cs(vals, ms) ==
  LET m == merge_fill_cs(Reverse(vals), ms)
  IN  [split_out |-> Reverse(m.merge_in), split_in |-> Reverse(m.merge_out), mults |-> m.mults]

(***************************************************************************)
(* Control flow shared by cloak and padded-shuffle.                        *)
(***************************************************************************)
Call(g, by, a, b) == [g |-> g, by |-> by, a |-> a, b |-> b]

\* Try with the error dropped (`let _ = ...` in place of `?`).
Try_ignored(r, next) ==
  /\ pc' = next
  /\ result' = IF next = "done" THEN Ok ELSE result

\* The `?` operator and a returned Result: an Ok continues at `next`, an
\* error is returned to the caller at once.
Try(r, next) ==
  /\ pc' = IF r = Ok THEN next ELSE "done"
  /\ result' = IF r # Ok THEN r ELSE IF next = "done" THEN Ok ELSE result

\* What the callee returned, kept for the record: the error and the number
\* of calls made when it was returned.
Returned(r) ==
  fault' = IF r # Ok THEN Some([e |-> r, at |-> Len(calls')]) ELSE fault

\* cloak with shuffle 1 moved before split.
CloakAfter_shuffle_first(p) ==
  CASE p = "merge" -> "shuffle1"
    [] p = "shuffle1" -> "split"
    [] p = "split" -> "padded_enter"
    [] p = "padded" -> "shuffle3"
    [] p = "shuffle3" -> "range"
    [] p = "range" -> "range"

\* The order of the statements of cloak.
CloakAfter(p) ==
  CASE p = "merge" -> "split"
    [] p = "split" -> "shuffle1"
    [] p = "shuffle1" -> "padded_enter"
    [] p = "padded" -> "shuffle3"
    [] p = "shuffle3" -> "range"
    [] p = "range" -> "range"

(***************************************************************************)
(* The driver: commit the inputs, commit the outputs, call the gadget.     *)
(***************************************************************************)
CommitInputs ==
  /\ pc = "commit_inputs"
  /\ inputs' = Vec_commit(inVals, Len(committed))
  /\ committed' = committed \o CommittedScalars(inVals)
  /\ pc' = "commit_outputs"
  /\ UNCHANGED <<role, entry, inVals, outVals, outputs, merge_in, merge_out, split_in,
                 split_out, x, y, pad_values, mults, calls, ri, result, fault, ts, sg>>

CommitOutputs ==
  /\ pc = "commit_outputs"
  /\ outputs' = Vec_commit(outVals, Len(committed))
  /\ committed' = committed \o CommittedScalars(outVals)
  /\ pc' = IF entry = "cloak" THEN "merge" ELSE "padded_enter"
  /\ UNCHANGED <<role, entry, inVals, outVals, inputs, merge_in, merge_out, split_in,
                 split_out, x, y, pad_values, mults, calls, ri, result, fault, ts, sg>>

(***************************************************************************)
(* cloak (cloak.rs)                                                        *)
(***************************************************************************)
Merge ==
  /\ pc = "merge"
  /\ calls' = Append(calls, Call("merge", "cloak", inputs, <<>>))
  /\ \E r \in Results :
       /\ Try(r, CloakAfter("merge"))
       /\ Returned(r)
       /\ IF r = Ok
            THEN LET m == merge_fill_cs(inVals, mults)
                 IN  /\ merge_in' = m.merge_in
                     /\ merge_out' = m.merge_out
                     /\ mults' = m.mults
            ELSE UNCHANGED <<merge_in, merge_out, mults>>
  /\ UNCHANGED <<role, entry, inVals, outVals, inputs, outputs, split_in, split_out,
                 x, y, pad_values, committed, ri, ts, sg>>

Split ==
  /\ pc = "split"
  /\ calls' = Append(calls, Call("split", "cloak", outputs, <<>>))
  /\ \E r \in Results :
       /\ Try(r, CloakAfter("split"))
       /\ Returned(r)
       /\ IF r = Ok
            THEN LET s == split_fill_cs(outVals, mults)
                 IN  /\ split_in' = s.split_in
                     /\ split_out' = s.split_out
                     /\ mults' = s.mults
            ELSE UNCHANGED <<split_in, split_out, mults>>
  /\ UNCHANGED <<role, entry, inVals, outVals, inputs, outputs, merge_in, merge_out,
                 x, y, pad_values, committed, ri, ts, sg>>

Shuffle1 ==
  /\ pc = "shuffle1"
  /\ calls' = Append(calls, Call("value_shuffle", "cloak", inputs, merge_in))
  /\ \E r \in Results : Try(r, CloakAfter("shuffle1")) /\ Returned(r)
  /\ UNCHANGED <<role, entry, inVals, outVals, inputs, outputs, merge_in, merge_out,
                 split_in, split_out, x, y, pad_values, committed, mults, ri, ts, sg>>

Shuffle3 ==
  /\ pc = "shuffle3"
  /\ calls' = Append(calls, Call("value_shuffle", "cloak", split_out, outputs))
  /\ \E r \in Results : Try(r, CloakAfter("shuffle3")) /\ Returned(r)
  /\ UNCHANGED <<role, entry, inVals, outVals, inputs, outputs, merge_in, merge_out,
                 split_in, split_out, x, y, pad_values, committed, mults, ri, ts, sg>>

RangeProof ==
  /\ pc = "range"
  /\ ri < Len(outputs)
  /\ calls' = Append(calls, Call("range_proof", "cloak", quantity(outputs[ri + 1]), RangeBits))
  /\ ri' = ri + 1
  /\ \E r \in Results : Try(r, CloakAfter("range")) /\ Returned(r)
  /\ UNCHANGED <<role, entry, inVals, outVals, inputs, outputs, merge_in, merge_out,
                 split_in, split_out, x, y, pad_values, committed, mults, ts, sg>>

CloakReturn ==
  /\ pc = "range"
  /\ ri = Len(outputs)
  /\ pc' = "done"
  /\ result' = Ok
  /\ UNCHANGED <<role, entry, inVals, outVals, inputs, outputs, merge_in, merge_out,
                 split_in, split_out, x, y, pad_values, committed, mults, calls, ri,
                 fault, ts, sg>>

(***************************************************************************)
(* padded-shuffle (gadgets/padded_shuffle.rs)                              *)
(***************************************************************************)
\* pad_count without the subtraction of the shorter length.
pad_count_max(m, n) == Max(m, n)

\* let pad_count = max(m, n) - min(m, n), with m = x.len() and n = y.len()
pad_count(m, n) == Max(m, n) - Min(m, n)

\* append with the two branches exchanged: the longer side is padded.
PadAppend_longer(xs, ys, pads) ==
  IF Len(xs) > Len(ys) THEN [x |-> xs \o pads, y |-> ys]
  ELSE IF Len(xs) < Len(ys) THEN [x |-> xs, y |-> ys \o pads]
  ELSE [x |-> xs, y |-> ys]

\* The two sides after `append`: pad_values go to the end of the shorter one.
PadAppend(xs, ys, pads) ==
  IF Len(xs) > Len(ys) THEN [x |-> xs, y |-> ys \o pads]
  ELSE IF Len(xs) < Len(ys) THEN [x |-> xs \o pads, y |-> ys]
  ELSE [x |-> xs, y |-> ys]

PaddedEnter ==
  /\ pc = "padded_enter"
  /\ x' = IF entry = "cloak" THEN merge_out ELSE inputs
  /\ y' = IF entry = "cloak" THEN split_in ELSE outputs
  /\ pad_values' = <<>>
  /\ calls' = Append(calls, Call("padded_shuffle", entry, x', y'))
  /\ pc' = "pad_loop"
  /\ UNCHANGED <<role, entry, inVals, outVals, inputs, outputs, merge_in, merge_out,
                 split_in, split_out, committed, mults, ri, result, fault, ts, sg>>

PadAllocate ==
  /\ pc = "pad_loop"
  /\ Len(pad_values) < pad_count(Len(x), Len(y))
  /\ calls' = Append(calls, Call("allocate", "padded_shuffle", <<>>, <<>>))
  /\ \E r \in Results :
       /\ Try(r, "pad_loop")
       /\ Returned(r)
       /\ IF r = Ok
            THEN LET a == Value_allocate(Value_zero, mults)
                 IN  /\ pad_values' = Append(pad_values, a.av)
                     /\ mults' = a.mults
            ELSE UNCHANGED <<pad_values, mults>>
  /\ UNCHANGED <<role, entry, inVals, outVals, inputs, outputs, merge_in, merge_out,
                 split_in, split_out, x, y, committed, ri, ts, sg>>

PaddedValueShuffle ==
  /\ pc = "pad_loop"
  /\ Len(pad_values) = pad_count(Len(x), Len(y))
  /\ x' = PadAppend(x, y, pad_values).x
  /\ y' = PadAppend(x, y, pad_values).y
  /\ calls' = Append(calls, Call("value_shuffle", "padded_shuffle", x', y'))
  /\ \E r \in Results :
       /\ Try(r, IF entry = "cloak" THEN CloakAfter("padded") ELSE "done")
       /\ Returned(r)
  /\ UNCHANGED <<role, entry, inVals, outVals, inputs, outputs, merge_in, merge_out,
                 split_in, split_out, pad_values, committed, mults, ri, ts, sg>>

(***************************************************************************)
(* Specifications of the cloak and padded-shuffle machines.                *)
(***************************************************************************)
TsIdle == [phase |-> "idle"]

SgIdle == [phase |-> "idle"]

InitCs(e) ==
  /\ role \in Roles
  /\ entry = e
  /\ inVals \in SeqsUpTo(TestValues, MaxLen)
  /\ outVals \in SeqsUpTo(TestValues, MaxLen)
  /\ pc = "commit_inputs"
  /\ inputs = <<>> /\ outputs = <<>>
  /\ merge_in = <<>> /\ merge_out = <<>> /\ split_in = <<>> /\ split_out = <<>>
  /\ x = <<>> /\ y = <<>> /\ pad_values = <<>>
  /\ committed = <<>> /\ mults = <<>> /\ calls = <<>>
  /\ ri = 0
  /\ result = "none"
  /\ fault = None
  /\ ts = TsIdle
  /\ sg = SgIdle

Init == InitCs("cloak")

Next ==
  \/ CommitInputs
  \/ CommitOutputs
  \/ Merge
  \/ Split
  \/ Shuffle1
  \/ PaddedEnter
  \/ PadAllocate
  \/ PaddedValueShuffle
  \/ Shuffle3
  \/ RangeProof
  \/ CloakReturn

Spec == Init /\ [][Next]_vars

InitPadded == InitCs("padded_shuffle")

NextPadded ==
  \/ CommitInputs
  \/ CommitOutputs
  \/ PaddedEnter
  \/ PadAllocate
  \/ PaddedValueShuffle

SpecPadded == InitPadded /\ [][NextPadded]_vars

(***************************************************************************)
(* What the constraints say.  A witness gives every multiplier of          *)
(* cs.allocate its three wires (l, r, o); committed wires are bound by     *)
(* their commitments.                                                      *)
(***************************************************************************)
WireScalars == {0, 1, 2, Peso, Yuan}

\* cs.allocate: "left * right = out" is the only constraint on its wires.
AllocateGate(t) == t[1] * t[2] = t[3]

GateWitnesses ==
  {t \in WireScalars \X WireScalars \X {a * b : a, b \in WireScalars} : AllocateGate(t)}

WireValue(var, w) ==
  CASE var[1] = "Committed" -> committed[var[2] + 1]
    [] var[1] = "MultiplierLeft" -> w[var[2] + 1][1]
    [] var[1] = "MultiplierRight" -> w[var[2] + 1][2]

PairOf(av, w) == <<WireValue(av.q, w), WireValue(av.f, w)>>

PairsOf(avs, w) == [i \in 1..Len(avs) |-> PairOf(avs[i], w)]

GatesHold(w) == \A i \in 1..Len(w) : AllocateGate(w[i])

\* value-shuffle accepts exactly the permutations
ValueShuffleHolds(c, w) == BagOfSeq(PairsOf(c.a, w)) = BagOfSeq(PairsOf(c.b, w))

\* range-proof(q, n): 0 <= q < 2^n (every integer of the model is below 2^31)
RangeProofHolds(c, w) ==
  /\ 0 <= WireValue(c.a.variable, w)
  /\ (c.b > 30 \/ WireValue(c.a.variable, w) < 2 ^ c.b)

\* mix: pass-through, or merge of two values of one flavor into the right slot
RECURSIVE KMixOutsFrom(_, _)
KMixOutsFrom(acc, rest) ==
  IF rest = <<>> THEN {<<acc>>}
  ELSE {<<acc>> \o t : t \in KMixOutsFrom(Head(rest), Tail(rest))}
       \cup (IF acc[2] = Head(rest)[2]
               THEN {<<(<<0, 0>>)>> \o t :
                       t \in KMixOutsFrom(<<acc[1] + Head(rest)[1], acc[2]>>, Tail(rest))}
               ELSE {})

KMixOuts(s) == IF s = <<>> THEN {<<>>} ELSE KMixOutsFrom(Head(s), Tail(s))

MergeHolds(w) == PairsOf(merge_out, w) \in KMixOuts(PairsOf(merge_in, w))

SplitHolds(w) == Reverse(PairsOf(split_in, w)) \in KMixOuts(Reverse(PairsOf(split_out, w)))

CallHolds(c, w) ==
  CASE c.g = "value_shuffle" -> ValueShuffleHolds(c, w)
    [] c.g = "range_proof" -> RangeProofHolds(c, w)
    [] c.g = "merge" -> MergeHolds(w)
    [] c.g = "split" -> SplitHolds(w)
    [] OTHER -> TRUE

SatisfiedBy(w) ==
  /\ Len(w) = Len(mults)
  /\ GatesHold(w)
  /\ \A i \in 1..Len(calls) : CallHolds(calls[i], w)

\* The witness the prover's closures supplied.
HonestWitness == [i \in 1..Len(mults) |-> mults[i][1]]

PermsOf(s) == {t \in [1..Len(s) -> {s[i] : i \in 1..Len(s)}] : BagOfSeq(t) = BagOfSeq(s)}

GatesOf(pairs) == [i \in 1..Len(pairs) |-> <<pairs[i][1], pairs[i][2], pairs[i][1] * pairs[i][2]>>]

ScalarPairs(vals) == [i \in 1..Len(vals) |-> <<into_Scalar(vals[i].q), vals[i].f>>]

\* Witnesses of padded-shuffle called on committed values: the padding wires are free.
PaddedWitnesses == [1..Len(mults) -> GateWitnesses]

PaddedSatisfiable == \E w \in PaddedWitnesses : SatisfiedBy(w)

\* Witnesses of cloak.  Shuffle 1 and 3 force the merge/split inputs to be
\* permutations of the committed values and k-mix then leaves only the
\* choice of branch per cell, so only such wires are enumerated; the wires
\* of the padding are free.
CloakSatisfiable ==
  \E mi \in PermsOf(ScalarPairs(inVals)) : \E mo \in KMixOuts(mi) :
    \E rv \in PermsOf(Reverse(ScalarPairs(outVals))) : \E ro \in KMixOuts(rv) :
      \E pads \in [1..Len(pad_values) -> GateWitnesses] :
        SatisfiedBy(GatesOf(mi) \o GatesOf(mo) \o GatesOf(rv) \o GatesOf(ro) \o pads)

RECURSIVE FlavorSum(_, _)
FlavorSum(vals, f) ==
  IF vals = <<>> THEN 0
  ELSE (IF Head(vals).f = f THEN into_Scalar(Head(vals).q) ELSE 0) + FlavorSum(Tail(vals), f)

Flavors(vals) == {vals[i].f : i \in 1..Len(vals)}

\* per flavor, the input quantities and the output quantities have the same sum
Conserved(ins, outs) ==
  \A f \in Flavors(ins) \cup Flavors(outs) : FlavorSum(ins, f) = FlavorSum(outs, f)

OutputsInRange(outs) ==
  \A i \in 1..Len(outs) : outs[i].q.sign # "Negative"

Zeros(k) == [i \in 1..k |-> Value_zero]

\* b is a rearrangement of a with k zero values added
IsZeroPadded(a, b) ==
  /\ Len(b) >= Len(a)
  /\ BagOfSeq(b) = BagOfSeq(a \o Zeros(Len(b) - Len(a)))

CloakDone == entry = "cloak" /\ pc = "done" /\ result = Ok

PaddedDone == entry = "padded_shuffle" /\ pc = "done" /\ result = Ok

(***************************************************************************)
(* Claims                                                                  *)
(***************************************************************************)
\* C1: cloak accepts (its constraints are satisfiable) exactly when, for
\* every flavor, the input quantities and the output quantities have the
\* same sum, and every output quantity is in [0, 2^64); also when m # n.
C1_CloakAcceptsIffConserved ==
  CloakDone => (CloakSatisfiable <=> (Conserved(inVals, outVals) /\ OutputsInRange(outVals)))

\* C2: in padded-shuffle with |x| # |y| the padding wires are (0,0) in every
\* satisfying witness, and the system is infeasible when the longer side
\* holds a non-zero value that has no equal value on the shorter side.
C2_PaddingConstrainedToZero ==
  (PaddedDone /\ Len(inVals) # Len(outVals)) =>
    /\ \A w \in PaddedWitnesses :
         SatisfiedBy(w) => \A i \in 1..Len(pad_values) : PairOf(pad_values[i], w) = <<0, 0>>
    /\ LET long == IF Len(inVals) > Len(outVals) THEN inVals ELSE outVals
           short == IF Len(inVals) > Len(outVals) THEN outVals ELSE inVals
       IN  (\E i \in 1..Len(long) :
              /\ long[i] # Value_zero
              /\ \A j \in 1..Len(short) : short[j] # long[i])
           => ~PaddedSatisfiable

\* C3: padding neutrality.  When one side is a rearrangement of the other
\* with k >= 0 zero values added at any positions, the witness the honest
\* prover supplied satisfies every constraint padded-shuffle added.
C3_PaddingNeutrality ==
  (PaddedDone /\ role = "prover"
     /\ (IsZeroPadded(inVals, outVals) \/ IsZeroPadded(outVals, inVals)))
  => SatisfiedBy(HonestWitness)

\* C3 witness: the prover padded the shorter side of a shuffle that holds a
\* non-zero value and zero values on the longer side, and was accepted.
C3_Witness ==
  /\ PaddedDone /\ role = "prover"
  /\ inVals = <<Value_zero, peso(1)>> /\ outVals = <<peso(1)>>
  /\ Len(pad_values) = 1
  /\ SatisfiedBy(HonestWitness)

ByCloak(c) == c.by = "cloak"

ByPadded(c) == c.by = "padded_shuffle"

IsPaddedEntry(c) == c.g = "padded_shuffle"

IsPaddedShuffle(c) == c.g = "value_shuffle" /\ c.by = "padded_shuffle"

IsPadAllocation(c) == c.g = "allocate" /\ c.by = "padded_shuffle"

AllocatedValues ==
  {inputs[i] : i \in 1..Len(inputs)} \cup {outputs[i] : i \in 1..Len(outputs)}
  \cup {merge_in[i] : i \in 1..Len(merge_in)} \cup {merge_out[i] : i \in 1..Len(merge_out)}
  \cup {split_in[i] : i \in 1..Len(split_in)} \cup {split_out[i] : i \in 1..Len(split_out)}
  \cup {x[i] : i \in 1..Len(x)} \cup {y[i] : i \in 1..Len(y)}
  \cup {pad_values[i] : i \in 1..Len(pad_values)}

\* C5: a successful call of cloak made exactly these calls in this order:
\* merge(inputs), split(outputs), value-shuffle(inputs, merge_in),
\* padded-shuffle(merge_out, split_in), value-shuffle(split_out, outputs),
\* then range-proof(output.q, 64) once per output in output order.
C5_CloakCallOrder ==
  CloakDone =>
    SelectSeq(calls, ByCloak) =
      <<Call("merge", "cloak", inputs, <<>>),
        Call("split", "cloak", outputs, <<>>),
        Call("value_shuffle", "cloak", inputs, merge_in),
        Call("padded_shuffle", "cloak", merge_out, split_in),
        Call("value_shuffle", "cloak", split_out, outputs)>>
      \o [i \in 1..Len(outputs) |-> Call("range_proof", "cloak", quantity(outputs[i]), 64)]

\* C5 witness: cloak returned Ok on one input and two outputs.
C5_Witness ==
  /\ CloakDone
  /\ Len(inputs) = 1 /\ Len(outputs) = 2
  /\ Len(SelectSeq(calls, ByCloak)) = 7

\* C7: every AllocatedValue of the verifier has assignment None, the padding
\* values of padded-shuffle included; every one of the prover has Some.
C7_VerifierNeverAssigned ==
  \A av \in AllocatedValues :
    /\ role = "verifier" => av.assignment = None
    /\ role = "prover" => av.assignment # None

\* C8: once a callee returned an error, cloak / padded-shuffle has returned
\* that same error and made no further call; and no other error is returned.
C8_ErrorsPropagate ==
  /\ fault # None =>
       /\ pc = "done"
       /\ result = fault[1].e
       /\ Len(calls) = fault[1].at
  /\ result \in Errors => fault # None

\* C8 witness: inside cloak the second padding allocation of padded-shuffle failed.
C8_Witness ==
  /\ entry = "cloak"
  /\ fault # None
  /\ result = "AllocationFailure"
  /\ calls[Len(calls)].g = "allocate"
  /\ Len(pad_values) = 1

\* C9: when padded-shuffle calls value-shuffle it has allocated exactly
\* |m - n| new padding values, all appended to the end of the shorter side;
\* the longer side and the original elements are unchanged; both sides have
\* length max(m, n); and value-shuffle is called once.
C9_PadsShorterSide ==
  LET entries == SelectSeq(calls, IsPaddedEntry)
      shuffles == SelectSeq(calls, IsPaddedShuffle)
  IN  /\ Len(shuffles) <= 1
      /\ PaddedDone => Len(shuffles) = 1
      /\ Len(shuffles) = 1 =>
           LET x0 == entries[1].a
               y0 == entries[1].b
               m == Len(x0)
               n == Len(y0)
               d == IF m >= n THEN m - n ELSE n - m
               c == shuffles[1]
           IN  /\ Len(pad_values) = d
               /\ Len(SelectSeq(calls, IsPadAllocation)) = d
               /\ \A i \in 1..d :
                    /\ pad_values[i] \notin {x0[j] : j \in 1..m} \cup {y0[j] : j \in 1..n}
                    /\ \A j \in 1..d : pad_values[i].q = pad_values[j].q => i = j
               /\ c.a = (IF m < n THEN x0 \o pad_values ELSE x0)
               /\ c.b = (IF n < m THEN y0 \o pad_values ELSE y0)
               /\ Len(c.a) = Max(m, n)
               /\ Len(c.b) = Max(m, n)

\* C9 witnesses: x shorter by two, and both sides of equal length.
C9_Witness ==
  /\ PaddedDone
  /\ Len(inputs) = 0 /\ Len(outputs) = 2
  /\ Len(x) = 2 /\ Len(y) = 2 /\ x = pad_values

(***************************************************************************)
(* two-shuffle (gadgets/two_shuffle.rs), driven by prove / verify.         *)
(* ts.ops is the sequence of operations on the constraint system, each     *)
(* with the phase in which it happened.                                    *)
(***************************************************************************)
FSub(a, b) == (a + FieldOrder - b) % FieldOrder

FMul(a, b) == (a * b) % FieldOrder

\* (A - x) * (B - x)
input_mul(A, B, xx) == FMul(FSub(A, xx), FSub(B, xx))

\* output_mul with a sign slip: (C - x) * (D + x)
output_mul_sign(C, D, xx) == FMul(FSub(C, xx), (D + xx) % FieldOrder)

\* (C - x) * (D - x)
output_mul(C, D, xx) == FMul(FSub(C, xx), FSub(D, xx))

\* cs.constrain(input_mul - output_mul): the value that must be zero
constrain_lc(im, om) == FSub(im, om)

Op(name, phase) == [op |-> name, phase |-> phase]

\* two_shuffle drawing the challenge before it registers the closure.
two_shuffle_ops_eager ==
  <<[op |-> "challenge_scalar", phase |-> 1], [op |-> "specify_randomized_constraints", phase |-> 1]>>

\* What two_shuffle itself does to the constraint system: it registers the closure.
two_shuffle_ops == <<Op("specify_randomized_constraints", 1)>>

TsCloakIdle ==
  /\ role = "prover" /\ entry = "none"
  /\ inVals = <<>> /\ outVals = <<>>
  /\ pc = "idle"
  /\ inputs = <<>> /\ outputs = <<>>
  /\ merge_in = <<>> /\ merge_out = <<>> /\ split_in = <<>> /\ split_out = <<>>
  /\ x = <<>> /\ y = <<>> /\ pad_values = <<>>
  /\ committed = <<>> /\ mults = <<>> /\ calls = <<>>
  /\ ri = 0
  /\ result = "none"
  /\ fault = None

InitTwoShuffle ==
  /\ TsCloakIdle
  /\ sg = SgIdle
  /\ \E party \in Roles : \E A, B, C, D \in Field :
       ts = [phase |-> 1, party |-> party, A |-> A, B |-> B, C |-> C, D |-> D,
             pc |-> "commit", ops |-> <<>>, deferred |-> 0, x |-> None,
             input_mul |-> None, output_mul |-> None, lc |-> None, verdict |-> "none"]

\* prover.commit / verifier.commit of A, B, C, D in turn
TsCommit ==
  /\ ts.pc = "commit"
  /\ ts' = [ts EXCEPT !.ops = Append(@, Op("commit", ts.phase)),
                      !.pc = IF Len(ts.ops) + 1 = 4 THEN "two_shuffle" ELSE "commit"]
  /\ UNCHANGED <<cloakVars, sg>>

\* two_shuffle(cs, A, B, C, D)
TsTwoShuffle ==
  /\ ts.pc = "two_shuffle"
  /\ ts' = [ts EXCEPT !.ops = @ \o two_shuffle_ops,
                      !.deferred = @ + 1,
                      !.pc = "finalize"]
  /\ UNCHANGED <<cloakVars, sg>>

\* prover.prove() / verifier.verify(): the wires are absorbed and the
\* registered closures run in the deferred phase
TsFinalize ==
  /\ ts.pc = "finalize"
  /\ ts' = [ts EXCEPT !.phase = 2, !.pc = "challenge"]
  /\ UNCHANGED <<cloakVars, sg>>

\* let x = cs.challenge_scalar(b"shuffle challenge")
TsChallenge ==
  /\ ts.pc = "challenge"
  /\ \E xx \in Field :
       ts' = [ts EXCEPT !.x = Some(xx),
                        !.ops = Append(@, Op("challenge_scalar", ts.phase)),
                        !.pc = "multiply_input"]
  /\ UNCHANGED <<cloakVars, sg>>

\* let (_, _, input_mul) = cs.multiply(A - x, B - x)
TsMultiplyInput ==
  /\ ts.pc = "multiply_input"
  /\ ts' = [ts EXCEPT !.input_mul = Some(input_mul(ts.A, ts.B, ts.x[1])),
                      !.ops = Append(@, Op("multiply", ts.phase)),
                      !.pc = "multiply_output"]
  /\ UNCHANGED <<cloakVars, sg>>

\* let (_, _, output_mul) = cs.multiply(C - x, D - x)
TsMultiplyOutput ==
  /\ ts.pc = "multiply_output"
  /\ ts' = [ts EXCEPT !.output_mul = Some(output_mul(ts.C, ts.D, ts.x[1])),
                      !.ops = Append(@, Op("multiply", ts.phase)),
                      !.pc = "constrain"]
  /\ UNCHANGED <<cloakVars, sg>>

\* cs.constrain(input_mul - output_mul)
TsConstrain ==
  /\ ts.pc = "constrain"
  /\ ts' = [ts EXCEPT !.lc = Some(constrain_lc(ts.input_mul[1], ts.output_mul[1])),
                      !.ops = Append(@, Op("constrain", ts.phase)),
                      !.pc = "verify"]
  /\ UNCHANGED <<cloakVars, sg>>

\* verify(proof, ...): Ok exactly when the committed wires satisfy the constraint
TsVerify ==
  /\ ts.pc = "verify"
  /\ ts' = [ts EXCEPT !.verdict = IF ts.lc[1] = 0 THEN "accept" ELSE "reject",
                      !.pc = "done"]
  /\ UNCHANGED <<cloakVars, sg>>

NextTwoShuffle ==
  \/ TsCommit
  \/ TsTwoShuffle
  \/ TsFinalize
  \/ TsChallenge
  \/ TsMultiplyInput
  \/ TsMultiplyOutput
  \/ TsConstrain
  \/ TsVerify

SpecTwoShuffle == InitTwoShuffle /\ [][NextTwoShuffle]_vars

TsIsPermutation == <<ts.C, ts.D>> \in {<<ts.A, ts.B>>, <<ts.B, ts.A>>}

\* the challenges at which the constraint of two_shuffle holds for A, B, C, D
TsPassingChallenges ==
  {xx \in Field : constrain_lc(input_mul(ts.A, ts.B, xx), output_mul(ts.C, ts.D, xx)) = 0}

OpNames(ops) == [i \in 1..Len(ops) |-> ops[i].op]

OpPhases(ops) == [i \in 1..Len(ops) |-> ops[i].phase]

IsPrefix(s, t) == Len(s) <= Len(t) /\ s = SubSeq(t, 1, Len(s))

\* C4: when (C, D) is (A, B) or (B, A) the constraint holds at every
\* challenge (also when A = B) and the proof verifies; otherwise it holds at
\* no more than 2 challenges and the proof is rejected at every other one.
C4_TwoShuffleAcceptsPermutations ==
  ts.pc = "done" =>
    /\ TsIsPermutation => (ts.verdict = "accept" /\ TsPassingChallenges = Field)
    /\ ~TsIsPermutation =>
         /\ Cardinality(TsPassingChallenges) <= 2
         /\ ts.x[1] \notin TsPassingChallenges => ts.verdict = "reject"

\* C4 witness: two_shuffle(3, 3, 1, 3) was rejected.
C4_Witness ==
  /\ ts.pc = "done"
  /\ ts.A = 3 /\ ts.B = 3 /\ ts.C = 1 /\ ts.D = 3
  /\ ts.verdict = "reject"

\* C10: in the construction phase two_shuffle only registers one closure;
\* the challenge is drawn in the deferred phase, after the four commitments
\* and before any multiplier; the closure adds two multipliers and then one
\* linear constraint.
C10_TwoShufflePhases ==
  LET expected == <<"commit", "commit", "commit", "commit",
                    "specify_randomized_constraints",
                    "challenge_scalar", "multiply", "multiply", "constrain">>
      phases == <<1, 1, 1, 1, 1, 2, 2, 2, 2>>
  IN  /\ IsPrefix(OpNames(ts.ops), expected)
      /\ IsPrefix(OpPhases(ts.ops), phases)
      /\ ts.pc \in {"finalize", "challenge"} => (Len(ts.ops) = 5 /\ ts.deferred = 1)
      /\ ts.pc \in {"verify", "done"} => (Len(ts.ops) = 9 /\ ts.deferred = 1)
      /\ (ts.x # None) <=> (Len(ts.ops) >= 6)

\* C10 witness: the closure has run to its end in the verifier.
C10_Witness ==
  /\ ts.pc = "done" /\ ts.party = "verifier"
  /\ Len(ts.ops) = 9 /\ ts.ops[6] = Op("challenge_scalar", 2)

(***************************************************************************)
(* The operations on the constraint system without the assignments: the    *)
(* commitments made, the multipliers allocated, and every call with the    *)
(* variables it was handed.                                                *)
(***************************************************************************)
VariablesOf(avs) == [i \in 1..Len(avs) |-> <<avs[i].q, avs[i].f>>]

OpShape(c) ==
  IF c.g = "range_proof"
    THEN [g |-> c.g, by |-> c.by, a |-> c.a.variable, b |-> c.b]
    ELSE [g |-> c.g, by |-> c.by, a |-> VariablesOf(c.a), b |-> VariablesOf(c.b)]

OpShapes == [i \in 1..Len(calls) |-> OpShape(calls[i])]

\* The variables of k values committed after `base` commitments, and of k
\* values allocated after `base` multipliers.
CommittedVars(base, k) ==
  [i \in 1..k |-> << <<"Committed", base + 2 * (i - 1)>>, <<"Committed", base + 2 * (i - 1) + 1>> >>]

MultiplierVars(base, k) ==
  [i \in 1..k |-> << <<"MultiplierLeft", base + i - 1>>, <<"MultiplierRight", base + i - 1>> >>]

\* What padded-shuffle does on sides with variables xv and yv when `base`
\* multipliers exist: a function of the two lengths.
PaddedOpsFor(by, xv, yv, base) ==
  LET m == Len(xv)
      n == Len(yv)
      d == IF m >= n THEN m - n ELSE n - m
      pads == MultiplierVars(base, d)
  IN  <<[g |-> "padded_shuffle", by |-> by, a |-> xv, b |-> yv]>>
      \o [i \in 1..d |-> [g |-> "allocate", by |-> "padded_shuffle", a |-> <<>>, b |-> <<>>]]
      \o <<[g |-> "value_shuffle", by |-> "padded_shuffle",
            a |-> IF m < n THEN xv \o pads ELSE xv,
            b |-> IF n < m THEN yv \o pads ELSE yv]>>

\* What cloak does on m inputs and n outputs: a function of m and n.
CloakOpsFor(m, n) ==
  LET ins == CommittedVars(0, m)
      outs == CommittedVars(2 * m, n)
      min == MultiplierVars(0, m)
      mout == MultiplierVars(m, m)
      sout == Reverse(MultiplierVars(2 * m, n))
      sin == Reverse(MultiplierVars(2 * m + n, n))
  IN  <<[g |-> "merge", by |-> "cloak", a |-> ins, b |-> <<>>],
        [g |-> "split", by |-> "cloak", a |-> outs, b |-> <<>>],
        [g |-> "value_shuffle", by |-> "cloak", a |-> ins, b |-> min]>>
      \o PaddedOpsFor("cloak", mout, sin, 2 * m + 2 * n)
      \o <<[g |-> "value_shuffle", by |-> "cloak", a |-> sout, b |-> outs]>>
      \o [i \in 1..n |-> [g |-> "range_proof", by |-> "cloak", a |-> outs[i][1], b |-> RangeBits]]

OpsFor(e, m, n) ==
  IF e = "cloak" THEN CloakOpsFor(m, n)
  ELSE PaddedOpsFor("padded_shuffle", CommittedVars(0, m), CommittedVars(2 * m, n), 0)

MultipliersFor(e, m, n) ==
  (IF m >= n THEN m - n ELSE n - m) + (IF e = "cloak" THEN 2 * m + 2 * n ELSE 0)

\* C11: the operations on the constraint system are a function of the
\* lengths m and n alone: whatever the role and the assignments, the calls
\* made so far, with the variables they were handed, are the first ones of
\* the sequence fixed by m and n; a run that returned Ok made all of them,
\* with 2 (m + n) commitments and the multipliers fixed by m and n.
C11_OperationsDependOnLengthsOnly ==
  LET m == Len(inVals)
      n == Len(outVals)
  IN  /\ IsPrefix(OpShapes, OpsFor(entry, m, n))
      /\ (pc = "done" /\ result = Ok) =>
           /\ OpShapes = OpsFor(entry, m, n)
           /\ Len(committed) = 2 * (m + n)
           /\ Len(mults) = MultipliersFor(entry, m, n)

\* C11 witness: the verifier, without assignments, went through cloak on two
\* inputs and one output, padding included.
C11_Witness ==
  /\ CloakDone
  /\ role = "verifier"
  /\ Len(inVals) = 2 /\ Len(outVals) = 1
  /\ Len(SelectSeq(calls, IsPadAllocation)) = 1
  /\ Len(calls) = 8

(***************************************************************************)
(* SignedInteger arithmetic (value.rs).  u64 is modelled WordBits wide and *)
(* i128 twice as wide.  sg.stack is the call stack; a call that finds      *)
(* StackLimit frames on it overflows the stack and the process aborts.     *)
(***************************************************************************)
as_u64(v) == v % (2 ^ WordBits)

\* `as u8`: the low eight bits
as_u8(v) == v % (2 ^ ByteBits)

I128Bits == 2 * WordBits

RECURSIVE BitAnd(_, _, _)
BitAnd(a, b, n) ==
  IF n = 0 THEN 0 ELSE (a % 2) * (b % 2) + 2 * BitAnd(a \div 2, b \div 2, n - 1)

RECURSIVE BitXor(_, _, _)
BitXor(a, b, n) ==
  IF n = 0 THEN 0 ELSE (((a % 2) + (b % 2)) % 2) + 2 * BitXor(a \div 2, b \div 2, n - 1)

\* the two's complement bits of an i128, and back
i128_bits(v) == (v + 2 ^ I128Bits) % (2 ^ I128Bits)

bits_i128(u) == IF u >= 2 ^ (I128Bits - 1) THEN u - 2 ^ I128Bits ELSE u

\* i128::conditional_select(a, b, choice) of subtle: with mask = -(choice)
\* it is a ^ (mask & (a ^ b)), which is a for 0 and b for 1.
i128_conditional_select(a, b, choice) ==
  LET mask == i128_bits(0 - choice)
      a_xor_b == BitXor(i128_bits(a), i128_bits(b), I128Bits)
  IN  bits_i128(BitXor(i128_bits(a), BitAnd(mask, a_xor_b, I128Bits), I128Bits))

\* SignedInteger::from_i128_unchecked up to its first call (value.rs 128-135):
\* the frame of SignedInteger::conditional_select it pushes.
from_i128_unchecked_call(v) ==
  LET x_is_negative == IF v < 0 THEN 1 ELSE 0
      x_abs == IF x_is_negative = 1 THEN 0 - v ELSE v
  IN  [fn |-> "conditional_select",
       a |-> Positive(as_u64(x_abs)),
       b |-> Negative(as_u64(x_abs)),
       choice |-> x_is_negative]

\* <SignedInteger as ConditionallySelectable>::conditional_select: it calls
\* from_i128_unchecked on the selected number (value.rs 173-174).
conditional_select_call(f) ==
  [fn |-> "from_i128_unchecked",
   x |-> i128_conditional_select(to_i128(f.a), to_i128(f.b), f.choice)]

\* impl Add: from_i128_unchecked(self.to_i128() + rhs.to_i128())
add_call(a, b) == [fn |-> "from_i128_unchecked", x |-> to_i128(a) + to_i128(b)]

\* impl From<u64> up to its call (value.rs 143-148): the frame of
\* SignedInteger::conditional_select it pushes, the choice being `u as u8`.
from_u64_call(u) ==
  [fn |-> "conditional_select", a |-> Zero, b |-> Positive(u), choice |-> as_u8(u)]

\* Choice::from(u8) of subtle carries a debug_assert that the byte is 0 or 1:
\* a build with debug assertions panics on any other byte, a build without
\* them keeps the byte.
Builds == {"debug", "release"}

ChoicePanics(build, byte) == build = "debug" /\ byte \notin {0, 1}

TestIntegers ==
  {Zero, Positive(1), Positive(2), Negative(1), Negative(3), Positive(2 ^ WordBits - 1)}

TestU64 == {0, 1, 2, 3, 2 ^ ByteBits, 2 ^ ByteBits + 1, 2 ^ WordBits - 1}

InitSigned ==
  /\ TsCloakIdle
  /\ ts = TsIdle
  /\ \E a, b \in TestIntegers :
       sg = [phase |-> "call", a |-> a, b |-> b, call |-> None, stack |-> <<>>,
             outcome |-> None]

\* a + b is called
SgAdd ==
  /\ sg.phase = "call"
  /\ sg' = [sg EXCEPT !.phase = "running",
                      !.call = [fn |-> "add", a |-> sg.a, b |-> sg.b],
                      !.stack = <<[fn |-> "add"], add_call(sg.a, sg.b)>>]
  /\ UNCHANGED <<cloakVars, ts>>

\* SignedInteger::from(u) is called
SgFrom ==
  /\ sg.phase = "call"
  /\ \E u \in TestU64, build \in Builds :
       IF ChoicePanics(build, as_u8(u))
         THEN sg' = [sg EXCEPT !.phase = "done",
                               !.call = [fn |-> "from", u |-> u],
                               !.outcome = <<"Panic">>]
         ELSE sg' = [sg EXCEPT !.phase = "running",
                               !.call = [fn |-> "from", u |-> u],
                               !.stack = <<[fn |-> "from"], from_u64_call(u)>>]
  /\ UNCHANGED <<cloakVars, ts>>

\* SignedInteger::conditional_select(&a, &b, choice) is called
SgSelect ==
  /\ sg.phase = "call"
  /\ \E choice \in {0, 1} :
       LET f == [fn |-> "conditional_select", a |-> sg.a, b |-> sg.b, choice |-> choice]
       IN  sg' = [sg EXCEPT !.phase = "running", !.call = f, !.stack = <<f>>]
  /\ UNCHANGED <<cloakVars, ts>>

SgTop == sg.stack[Len(sg.stack)]

\* from_i128_unchecked runs up to its call of SignedInteger::conditional_select
SgFromI128Unchecked ==
  /\ sg.phase = "running"
  /\ Len(sg.stack) < StackLimit
  /\ SgTop.fn = "from_i128_unchecked"
  /\ sg' = [sg EXCEPT !.stack = Append(@, from_i128_unchecked_call(SgTop.x))]
  /\ UNCHANGED <<cloakVars, ts>>

\* conditional_select runs up to its call of from_i128_unchecked
SgConditionalSelect ==
  /\ sg.phase = "running"
  /\ Len(sg.stack) < StackLimit
  /\ SgTop.fn = "conditional_select"
  /\ sg' = [sg EXCEPT !.stack = Append(@, conditional_select_call(SgTop))]
  /\ UNCHANGED <<cloakVars, ts>>

\* the next call finds the stack full
SgStackOverflow ==
  /\ sg.phase = "running"
  /\ Len(sg.stack) = StackLimit
  /\ sg' = [sg EXCEPT !.phase = "done", !.stack = <<>>, !.outcome = <<"StackOverflow">>]
  /\ UNCHANGED <<cloakVars, ts>>

NextSigned ==
  \/ SgAdd
  \/ SgFrom
  \/ SgSelect
  \/ SgFromI128Unchecked
  \/ SgConditionalSelect
  \/ SgStackOverflow

SpecSigned == InitSigned /\ [][NextSigned]_vars

\* the SignedInteger whose numeric value is n
Canonical(n) == IF n > 0 THEN Positive(n) ELSE IF n < 0 THEN Negative(0 - n) ELSE Zero

\* C6: for a and b whose sum s has |s| below the bound of the unsigned
\* word, a + b returns the SignedInteger whose numeric value is s.
C6_AddExact ==
  LET s == to_i128(sg.a) + to_i128(sg.b)
  IN  (sg.phase = "done" /\ sg.call.fn = "add" /\ s < 2 ^ WordBits /\ 0 - s < 2 ^ WordBits)
        => sg.outcome = <<"Returned", Canonical(s)>>

\* C12: every SignedInteger operation terminates: no call of
\* conditional_select or from_i128_unchecked is active inside a call of the
\* same function with the same arguments, and add, from and
\* conditional_select never end by overflowing the stack.
C12_SignedIntegerTerminates ==
  /\ \A i, j \in 1..Len(sg.stack) : sg.stack[i] = sg.stack[j] => i = j
  /\ sg.phase = "done" => sg.outcome # <<"StackOverflow">>

\* C13: SignedInteger::from(u) returns Zero for u = 0 and Positive(u) for
\* every other u, u = 2^8 included; the narrowing reached through
\* conditional_select returns the canonical SignedInteger of the selected
\* number, Negative(|x|) for x < 0; and the number handed to the narrowing by
\* from(u) is u itself.
C13_ConversionsCanonical ==
  /\ (sg.phase = "done" /\ sg.call.fn = "from") =>
       sg.outcome = <<"Returned", Canonical(sg.call.u)>>
  /\ (sg.phase = "done" /\ sg.call.fn = "conditional_select") =>
       sg.outcome = <<"Returned",
                      Canonical(to_i128(IF sg.call.choice = 1 THEN sg.call.b ELSE sg.call.a))>>
  /\ (sg.phase = "running" /\ sg.call.fn = "from" /\ Len(sg.stack) >= 3) =>
       sg.stack[3].x = sg.call.u

====
